---------------------------- MODULE Spec2Model ----------------------------
(***************************************************************************)
(* The debug listener of client/src/adt/debugger/debugListener.ts as a     *)
(* state machine.                                                          *)
(*                                                                         *)
(* One DebugListener instance runs on a single-threaded event loop.  Every *)
(* asynchronous invocation (fireMainLoop, mainLoop, stopDebugging, logout) *)
(* is a task suspended at an await; an action resumes one task with the    *)
(* outcome of the call it awaits and runs the code up to the next await    *)
(* that waits for the outside world (a remote call or the UI prompt).      *)
(* Continuations that are already runnable (the return of an async callee  *)
(* into its caller) are run in the same step.                              *)
(*                                                                         *)
(* The code of a step is written in state-passing style: an operator takes *)
(* the record r of what the step has done so far and returns it extended.  *)
(*   r.a, r.at, r.k   the fields active, attached, killed                  *)
(*   r.h              the event loop is stuck in a loop that never awaits  *)
(*   r.t              the suspended continuation of the task (<<>>: ended) *)
(*   r.net            remote calls that reached the network in this step   *)
(*   r.disc           the guarded getter threw "Disconnected" in this step *)
(*   r.ev, r.ui       events fired, UI calls made, in order                *)
(*   r.ret            how the public entry point completed in this step    *)
(*   r.sd             the stopDebugging invocation that completed          *)
(*   r.lp             how the mainLoop task ended in this step             *)
(*   r.probe          the hasConflict invocation that completed            *)
(***************************************************************************)
EXTENDS Naturals, Sequences, FiniteSets, Bags, TLC

VARIABLES active, attached, killed, hung, tasks, step, sessionNumbers, created

vars == <<active, attached, killed, hung, tasks, step, sessionNumbers, created>>

(* Bounds of the model *)
MaxTasks == 2
MaxSessions == 4

ConnIds == {"dev", "prd"}

ATTACHTIMEOUT == "autoAttachTimeout"
THREADID == 1

---------------------------------------------------------------------------
(* Errors a remote call or the UI can fail with.  subType is the           *)
(* "com.sap.adt.communicationFramework.subType" property, "" when absent;  *)
(* body is the response body, conflictText the conflictText property.      *)

Outcome(isErr, isAdt, sub, text, bodyText, msg) ==
  [err |-> isErr, adt |-> isAdt, subType |-> sub, conflictText |-> text,
   body |-> bodyText, message |-> msg]

ErrConflictNotification ==
  Outcome(TRUE, TRUE, "conflictNotification", "held by BOB", "", "conflict")
ErrConflictDetected ==
  Outcome(TRUE, TRUE, "conflictDetected", "", "", "conflict")
ErrTimeout ==
  Outcome(TRUE, TRUE, "", "", "Connection timed out", "timeout")
ErrUnclassified ==
  Outcome(TRUE, TRUE, "", "", "", "adt error")
ErrPlain ==
  Outcome(TRUE, FALSE, "", "", "", "failure")
ErrDisconnected ==
  Outcome(TRUE, FALSE, "", "", "", "Disconnected")

RemoteErrors ==
  {ErrConflictNotification, ErrConflictDetected, ErrTimeout, ErrUnclassified, ErrPlain}

(* What a call or a prompt resolves with *)
Value(v) == Outcome(FALSE, FALSE, "", "", "", v)
Ok == Value("ok")
Debuggee == Value("D123")
ListenerError == Value("listener error")
Nothing == Value("")
Running == Value("listener")
Yes == Value("true")
No == Value("false")

errorType(err) ==
  IF err.subType # "" THEN err.subType
  ELSE IF err.adt /\ err.body = "Connection timed out" THEN ATTACHTIMEOUT
  ELSE ""

isConflictError(e) ==
  errorType(e) \in {"conflictNotification", "conflictDetected"}

caughtToString(e) == e.message

(* The class of a probe answer, as the specification speaks of it *)
OutcomeClass(o) ==
  IF o = Ok THEN "ok" ELSE IF isConflictError(o) THEN "conflict" ELSE "error"

---------------------------------------------------------------------------
(* Process-wide session counters and the constructor *)

(* Variant with one counter for all connections *)
constructorSharedCounter(connId) ==
  LET n == Len(created) + 1
  IN  /\ sessionNumbers' = [sessionNumbers EXCEPT ![connId] = n]
      /\ created' = Append(created,
                      [connId |-> connId, sessionNumber |-> n, live |-> TRUE])

constructor(connId) ==
  LET n == sessionNumbers[connId] + 1
  IN  /\ sessionNumbers' = [sessionNumbers EXCEPT ![connId] = n]
      /\ created' = Append(created,
                      [connId |-> connId, sessionNumber |-> n, live |-> TRUE])

NoProbe == [first |-> "", second |-> "", sent |-> 0, res |-> ""]

IdleStep ==
  [task |-> "none", op |-> "init", in |-> Ok, net |-> {}, disc |-> FALSE,
   ev |-> <<>>, ui |-> <<>>, ret |-> "none", sd |-> <<>>, lp |-> "none",
   probe |-> NoProbe, inv |-> <<>>, ctx |-> "", hist |-> <<>>,
   wasActive |-> FALSE, wasKilled |-> FALSE]

InitInstance ==
  /\ active = FALSE
  /\ attached = FALSE
  /\ killed = FALSE
  /\ hung = FALSE
  /\ tasks = EmptyBag
  /\ step = IdleStep

InitSessions ==
  /\ InitInstance
  /\ sessionNumbers = [c \in ConnIds |-> 0]
  /\ created = <<>>

(* DebugListener.create: the constructor runs only when a client exists *)
Create(connId, haveClient) ==
  /\ Len(created) < MaxSessions
  /\ IF haveClient
       THEN constructor(connId)
       ELSE UNCHANGED <<sessionNumbers, created>>
  /\ UNCHANGED <<active, attached, killed, hung, tasks, step>>

(* logout() of an earlier session: it does not touch the counters *)
LogoutSession(i) ==
  /\ i \in 1..Len(created)
  /\ created[i].live
  /\ created' = [created EXCEPT ![i].live = FALSE]
  /\ UNCHANGED <<sessionNumbers, active, attached, killed, hung, tasks, step>>

NextSessions ==
  \/ \E c \in ConnIds, hc \in BOOLEAN : Create(c, hc)
  \/ \E i \in 1..MaxSessions : LogoutSession(i)

SpecSessions == InitSessions /\ [][NextSessions]_vars

---------------------------------------------------------------------------
(* The record of a step, and the primitive effects of the code *)

(* A suspended invocation: the await it is at (pc), the call site it came  *)
(* from (ctx), and what the invocation has done so far (hist)             *)
Task(kind, pc, ctx) ==
  [kind |-> kind, pc |-> pc, ctx |-> ctx, n |-> 0, hist |-> <<>>, first |-> Ok, plan |-> Ok]

NoTask == Task("none", "", "")

Begin(task) ==
  [a |-> active, at |-> attached, k |-> killed, h |-> FALSE, t |-> <<>>,
   net |-> {}, disc |-> FALSE, ev |-> <<>>, ui |-> <<>>, ret |-> "none",
   sd |-> <<>>, lp |-> "none", probe |-> NoProbe, inv |-> <<>>, hist |-> task.hist,
   first |-> task.first, plan |-> task.plan,
   hc |-> [tag |-> "none", with |-> "", message |-> "", err |-> Ok]]

Mark(r, what) == [r EXCEPT !.hist = Append(@, what)]

Count(seq, x) == Cardinality({i \in 1..Len(seq) : seq[i] = x})

Net(r, call) == [r EXCEPT !.net = @ \cup {call}]

Fire(r, event) == [r EXCEPT !.ev = Append(@, event)]

ShowError(r, message) == [r EXCEPT !.ui = Append(@, [k |-> "error", msg |-> message])]

Confirmator(r, message) ==
  Mark([r EXCEPT !.ui = Append(@, [k |-> "confirm", msg |-> message])], "prompted")

(* The task awaits; what its invocation has done so far stays with it *)
Suspend(r, task) ==
  [r EXCEPT !.t = <<[task EXCEPT !.hist = r.hist, !.first = r.first, !.plan = r.plan]>>]

Invoke(r, what) == [r EXCEPT !.inv = Append(@, what)]

Finish(r) == [r EXCEPT !.t = <<>>]

(* private get client(): throws when killed *)
clientThrows(r) == r.k

Disconnected(r) == [r EXCEPT !.disc = TRUE]

StoppedEvent == [type |-> "stopped", reason |-> "breakpoint", threadId |-> THREADID]
TerminatedEvent == [type |-> "terminated", reason |-> "", threadId |-> 0]

TakeOverMessage(conflictText) ==
  <<IF conflictText # "" THEN conflictText ELSE "Debugger conflict detected",
    "Take over debugging?">>

ListenErrorMessage(e) == <<"Error listening to debugger:", caughtToString(e)>>

CloseSessionMessage(e) == <<"Error listening to debugger:", caughtToString(e), "Close session?">>

ConflictMessage(e) ==
  <<IF e.conflictText # "" THEN e.conflictText
    ELSE "Debugger terminated by another session/user">>

---------------------------------------------------------------------------
(* mainLoop *)

LoopTask(pc, ctx) == Task("loop", pc, ctx)

(* The head of the while loop.  debuggerListen() goes through the guarded  *)
(* getter: when killed it throws before any await, the catch block finds   *)
(* active true and a non-ADT error, reports it and loops: the task never   *)
(* yields again.                                                           *)
mainLoopTop(r) ==
  IF ~r.a THEN [Finish(r) EXCEPT !.lp = "returned"]
  ELSE IF clientThrows(r)
    THEN [ShowError(Disconnected(r), ListenErrorMessage(ErrDisconnected))
            EXCEPT !.h = TRUE, !.lp = "spinning", !.t = <<LoopTask("spin", "")>>]
    ELSE [Net(r, "listen") EXCEPT !.t = <<LoopTask("listen", "")>>]

(* mainLoop(): called, not awaited, by fireMainLoop *)
mainLoop(r) == mainLoopTop([Invoke(r, "mainLoop") EXCEPT !.a = TRUE])

(* stopDebugging(false): no await inside *)
stopDebuggingLocal(r) ==
  [Fire([Invoke(r, "stopDebugging(false)") EXCEPT !.a = FALSE], TerminatedEvent)
     EXCEPT !.sd = <<"false", "resolved">>]

(* Variant whose conflict branch makes the full stop, remote teardown      *)
(* included                                                                *)
mainLoopCatchFullStop(r, e) ==
  IF ~r.a THEN [Finish(r) EXCEPT !.lp = "returned"]
  ELSE IF ~e.adt THEN mainLoopTop(ShowError(r, ListenErrorMessage(e)))
  ELSE CASE errorType(e) \in {"conflictNotification", "conflictDetected"} ->
              Suspend(Net([Invoke(ShowError(r, ConflictMessage(e)), "stopDebugging(true)")
                             EXCEPT !.a = FALSE], "listActiveListeners(user)"),
                      LoopTask("sdProbe", "quit"))
         [] errorType(e) = ATTACHTIMEOUT -> mainLoopTop(r)
         [] OTHER ->
              Suspend(Confirmator(r, CloseSessionMessage(e)), LoopTask("confirm", ""))

(* The catch block of mainLoop *)
mainLoopCatch(r, e) ==
  IF ~r.a THEN [Finish(r) EXCEPT !.lp = "returned"]
  ELSE IF ~e.adt THEN mainLoopTop(ShowError(r, ListenErrorMessage(e)))
  ELSE CASE errorType(e) \in {"conflictNotification", "conflictDetected"} ->
              mainLoopTop(stopDebuggingLocal(ShowError(r, ConflictMessage(e))))
         [] errorType(e) = ATTACHTIMEOUT -> mainLoopTop(r)
         [] OTHER ->
              Suspend(Confirmator(r, CloseSessionMessage(e)), LoopTask("confirm", ""))

---------------------------------------------------------------------------
(* stopListener and stopDebugging(true).  ctx names the caller the         *)
(* invocation returns to: "ext" a call from outside, "bp" the catch block  *)
(* of onBreakpointReached, "quit" the default branch of mainLoop's catch.  *)

(* stopListener goes through _client, not through the guarded getter *)
stopListener(r, norestart) ==
  Mark(Net([Invoke(r, "stopListener") EXCEPT !.a = IF norestart THEN FALSE ELSE @],
           "deleteListener"), "deleted")

StopTask(ctx, pc) == IF ctx = "ext" THEN Task("stop", pc, ctx) ELSE LoopTask(pc, ctx)

stopDebuggingRejected(r, e, ctx) ==
  LET r1 == [r EXCEPT !.sd = <<"true", "rejected">>]
  IN  CASE ctx = "ext"  -> [Finish(r1) EXCEPT !.ret = "rejected"]
        [] ctx = "bp"   -> mainLoopCatch(r1, e)
        [] ctx = "quit" -> [Finish(r1) EXCEPT !.lp = "rejected"]

stopDebuggingResolved(r, ctx) ==
  LET r1 == [Fire(r, TerminatedEvent) EXCEPT !.sd = <<"true", "resolved">>]
  IN  IF ctx = "ext" THEN [Finish(r1) EXCEPT !.ret = "resolved"] ELSE mainLoopTop(r1)

stopDebugging(r, ctx) ==
  LET r1 == [Invoke(r, "stopDebugging(true)") EXCEPT !.a = FALSE]
  IN  IF clientThrows(r1)
        THEN stopDebuggingRejected(Disconnected(r1), ErrDisconnected, ctx)
        ELSE Suspend(Net(r1, "listActiveListeners(user)"), StopTask(ctx, "sdProbe"))

(* .catch(isConflictError): a failed probe counts as running iff it is a conflict *)
stopDebuggingRunning(o) == IF o.err THEN isConflictError(o) ELSE o = Running

stopDebuggingAfterProbe(r, ctx, o) ==
  IF stopDebuggingRunning(o)
    THEN Suspend(stopListener(r, TRUE), StopTask(ctx, "sdDelete"))
    ELSE stopDebuggingResolved(r, ctx)

stopDebuggingAfterDelete(r, ctx, o) ==
  IF o.err THEN stopDebuggingRejected(r, o, ctx) ELSE stopDebuggingResolved(r, ctx)

---------------------------------------------------------------------------
(* onBreakpointReached and the body of the loop *)

(* Variant that reports the stop only while the session is not attached *)
onBreakpointSavedOnce(r) == mainLoopTop(IF r.at THEN r ELSE Fire(r, StoppedEvent))

onBreakpointSaved(r) == mainLoopTop(Fire(r, StoppedEvent))

onBreakpointAttached(r) ==
  LET r1 == [r EXCEPT !.at = TRUE]
  IN  IF clientThrows(r1)
        THEN stopDebugging(Disconnected(r1), "bp")
        ELSE Suspend(Net(r1, "saveSettings"), LoopTask("save", ""))

onBreakpointReached(r) ==
  IF ~r.at
    THEN IF clientThrows(r)
           THEN stopDebugging(Disconnected(r), "bp")
           ELSE Suspend(Net(r, "attach"), LoopTask("attach", ""))
    ELSE onBreakpointAttached(r)

(* Variant that does not read active after the listen call *)
mainLoopAfterListenNoRecheck(r, o) ==
  IF o.err THEN mainLoopCatch(r, o)
  ELSE IF o = Nothing THEN mainLoopTop(r)
  ELSE IF o = ListenerError THEN [Finish(r) EXCEPT !.lp = "break"]
  ELSE onBreakpointReached(r)

(* Variant that reconnects after a listener-level error *)
mainLoopAfterListenReconnects(r, o) ==
  IF o.err THEN mainLoopCatch(r, o)
  ELSE IF o = Nothing \/ ~r.a \/ o = ListenerError THEN mainLoopTop(r)
  ELSE onBreakpointReached(r)

mainLoopAfterListen(r, o) ==
  IF o.err THEN mainLoopCatch(r, o)
  ELSE IF o = Nothing \/ ~r.a THEN mainLoopTop(r)
  ELSE IF o = ListenerError THEN [Finish(r) EXCEPT !.lp = "break"]
  ELSE onBreakpointReached(r)

mainLoopAfterAttach(r, o) ==
  IF o.err THEN stopDebugging(r, "bp") ELSE onBreakpointAttached(r)

mainLoopAfterSave(r, o) ==
  IF o.err THEN stopDebugging(r, "bp") ELSE onBreakpointSaved(r)

(* Variant that closes the session whatever the answer *)
mainLoopAfterConfirmAlwaysQuits(r, o) ==
  IF o.err THEN [Finish(r) EXCEPT !.lp = "rejected"] ELSE stopDebugging(r, "quit")

mainLoopAfterConfirm(r, o) ==
  IF o.err THEN [Finish(r) EXCEPT !.lp = "rejected"]
  ELSE IF o = Yes THEN stopDebugging(r, "quit")
  ELSE mainLoopTop(r)

---------------------------------------------------------------------------
(* hasConflict.  r.hc tells the caller how the invocation goes on: it      *)
(* awaits a probe, returns a ConflictResult, or throws.  The backend's     *)
(* answers to the two probes of the sequence are fixed when the first one  *)
(* arrives (r.first, r.plan); the second is delivered only if the code     *)
(* sends the second probe.                                                 *)

Await(pc) == [tag |-> "await", with |-> pc, message |-> "", err |-> Ok]
Return(with, message) == [tag |-> "return", with |-> with, message |-> message, err |-> Ok]
Throw(e) == [tag |-> "throw", with |-> "", message |-> "", err |-> e]

hasConflict(r) ==
  IF clientThrows(r)
    THEN [Disconnected(r) EXCEPT !.hc = Throw(ErrDisconnected)]
    ELSE [Net(r, "listActiveListeners") EXCEPT !.hc = Await("probe1")]

(* Variant of the first try block that does not return on a conflict but   *)
(* goes on to the second probe                                             *)
hasConflictFirstKeepsProbing(r, o) ==
  IF o.err /\ ~isConflictError(o) THEN [r EXCEPT !.hc = Throw(o)]
  ELSE IF clientThrows(r)
         THEN [Disconnected(r) EXCEPT !.hc = Throw(ErrDisconnected)]
         ELSE [Net(r, "listActiveListeners") EXCEPT !.hc = Await("probe2")]

(* first try block, lines 110-115, and the call of the second, line 117 *)
hasConflictFirst(r, o) ==
  IF o.err
    THEN IF isConflictError(o)
           THEN [r EXCEPT !.hc = Return("other", o.conflictText)]
           ELSE [r EXCEPT !.hc = Throw(o)]
    ELSE IF clientThrows(r)
           THEN [Disconnected(r) EXCEPT !.hc = Throw(ErrDisconnected)]
           ELSE [Net(r, "listActiveListeners") EXCEPT !.hc = Await("probe2")]

(* second try block, lines 116-122 *)
hasConflictSecond(r, o) ==
  IF o.err
    THEN IF isConflictError(o)
           THEN [r EXCEPT !.hc = Return("myself", o.conflictText)]
           ELSE [r EXCEPT !.hc = Throw(o)]
    ELSE [r EXCEPT !.hc = Return("none", "")]

(* r.probe: the completed invocation, by the class of the two answers the  *)
(* backend had, the number of probes sent, and the result                  *)
hasConflictDone(r, sent) ==
  IF r.hc.tag = "await" THEN r
  ELSE [r EXCEPT !.probe = [first |-> OutcomeClass(r.first), second |-> OutcomeClass(r.plan),
                            sent |-> sent,
                            res |-> IF r.hc.tag = "throw" THEN "throw" ELSE r.hc.with],
                 !.first = Ok, !.plan = Ok]

hasConflictAfterProbe(r, pc, o, o2) ==
  IF pc = "probe1"
    THEN hasConflictDone(hasConflictFirst([r EXCEPT !.first = o, !.plan = o2], o), 1)
    ELSE hasConflictDone(hasConflictSecond(r, o), 2)

---------------------------------------------------------------------------
(* fireMainLoop *)

FireTask(pc, ctx) == Task("fire", pc, ctx)

(* Variant without the try/catch: the error leaves fireMainLoop *)
fireCatchRethrows(r, e) == [Finish(r) EXCEPT !.ret = "rejected"]

fireCatch(r, e) == [Finish(ShowError(r, ListenErrorMessage(e))) EXCEPT !.ret = "false"]

(* this.mainLoop(); return true -- the return is never reached when the     *)
(* loop does not yield                                                      *)
fireStart(r) ==
  LET r1 == mainLoop(r)
  IN  IF r1.h THEN r1 ELSE [r1 EXCEPT !.ret = "true"]

(* Variant that asks for confirmation on a conflict with myself too *)
fireSwitchAlwaysAsks(r) ==
  IF r.hc.with = "none" THEN fireStart(r)
  ELSE Suspend(Confirmator(r, TakeOverMessage(r.hc.message)), FireTask("confirm", "other"))

fireSwitch(r) ==
  CASE r.hc.with = "myself" -> Suspend(stopListener(r, TRUE), FireTask("delete", "myself"))
    [] r.hc.with = "other" ->
         Suspend(Confirmator(r, TakeOverMessage(r.hc.message)), FireTask("confirm", "other"))
    [] r.hc.with = "none" -> fireStart(r)

fireContinue(r) ==
  CASE r.hc.tag = "await"  -> Suspend(r, FireTask(r.hc.with, ""))
    [] r.hc.tag = "throw"  -> fireCatch(r, r.hc.err)
    [] r.hc.tag = "return" -> fireSwitch(r)

fireMainLoop(r) == fireContinue(hasConflict(Invoke(r, "fireMainLoop")))

fireAfterProbe(r, pc, o, o2) == fireContinue(hasConflictAfterProbe(r, pc, o, o2))

(* Variant that takes the listener over whatever the answer *)
fireAfterConfirmIgnoresAnswer(r, o) ==
  IF o.err THEN fireCatch(r, o)
  ELSE Suspend(stopListener(r, FALSE), FireTask("delete", "other"))

fireAfterConfirm(r, o) ==
  IF o.err THEN fireCatch(r, o)
  ELSE IF o = Yes THEN Suspend(stopListener(r, FALSE), FireTask("delete", "other"))
  ELSE [Finish(r) EXCEPT !.ret = "false"]

fireAfterDelete(r, o) ==
  IF o.err THEN fireCatch(r, o) ELSE fireStart(r)

---------------------------------------------------------------------------
(* logout.  ctx "in": client.loggedin was true at the call.                *)

LogoutTask(pc, ctx, n) == [Task("logout", pc, ctx) EXCEPT !.n = n]

logoutResolved(r) == [Finish(r) EXCEPT !.ret = "resolved"]

(* Variant that drops the session whether or not the client is logged in *)
logoutStopSettledAlwaysDrops(r, ctx) ==
  Suspend(Net(r, "dropSession"), LogoutTask("drop", ctx, 0))

(* stop has settled: without the dropSession chain Promise.all is done *)
logoutStopSettled(r, ctx) ==
  IF ctx = "in"
    THEN Suspend(Net(r, "dropSession"), LogoutTask("drop", ctx, 0))
    ELSE logoutResolved(r)

(* hasConflict().then(r => myself ? stopListener().catch(ignore) : _, ignore) *)
logoutStopContinue(r, ctx) ==
  CASE r.hc.tag = "await"  -> Suspend(r, LogoutTask(r.hc.with, ctx, 0))
    [] r.hc.tag = "throw"  -> logoutStopSettled(r, ctx)
    [] r.hc.tag = "return" ->
         IF r.hc.with = "myself"
           THEN Suspend(stopListener(r, TRUE), LogoutTask("delete", ctx, 0))
           ELSE logoutStopSettled(r, ctx)

logout(r, loggedin) ==
  LET r1 == [Invoke(r, "logout") EXCEPT !.a = FALSE, !.at = FALSE]
  IN  IF r1.k THEN logoutResolved(r1)
      ELSE LET r2 == hasConflict(r1)
               ctx == IF loggedin THEN "in" ELSE "out"
           IN  [logoutStopContinue(r2, ctx) EXCEPT !.k = TRUE]

(* The backend holds a stale listener of this identity: the probe sequence *)
(* run to completion gives "myself"                                        *)
StaleOwnListener(o, o2) ==
  LET r0 == [Begin(NoTask) EXCEPT !.k = FALSE]
      r1 == hasConflictFirst(r0, o)
  IN  /\ r1.hc.tag = "await"
      /\ hasConflictSecond(r1, o2).hc = Return("myself", o2.conflictText)

logoutAfterStop(r, task, o, o2) ==
  LET r1 == IF task.pc = "probe1" /\ StaleOwnListener(o, o2) THEN Mark(r, "stale") ELSE r
  IN  IF task.pc = "delete" THEN logoutStopSettled(r1, task.ctx)
      ELSE logoutStopContinue(hasConflictAfterProbe(r1, task.pc, o, o2), task.ctx)

logoutAfterDrop(r, task, o) ==
  IF o.err THEN logoutResolved(r)
  ELSE Suspend(Net(Net(r, "logout"), "statelessClone.logout"), LogoutTask("logouts", task.ctx, 2))

(* Promise.all([client.logout(), client.statelessClone.logout()]) *)
logoutAfterLogout(r, task, o) ==
  IF o.err THEN [Finish(r) EXCEPT !.ret = "rejected"]
  ELSE IF task.n = 2 THEN Suspend(r, LogoutTask("logouts", task.ctx, 1))
  ELSE logoutResolved(r)

---------------------------------------------------------------------------
(* Answers of the outside world *)

ProbeAnswers == {Ok} \cup RemoteErrors
ListenAnswers == {Debuggee, ListenerError, Nothing} \cup RemoteErrors
UserProbeAnswers == {Running, Nothing} \cup RemoteErrors
DeleteAnswers == {Ok} \cup RemoteErrors
CallAnswers == {Ok, ErrUnclassified}
ConfirmAnswers == {Yes, No, ErrPlain}

---------------------------------------------------------------------------
(* The actions: an entry point is called, or a suspended task is resumed   *)

Live(kind) == {t \in BagToSet(tasks) : t.kind = kind}

Commit(old, kind, op, o, r) ==
  /\ active' = r.a
  /\ attached' = r.at
  /\ killed' = r.k
  /\ hung' = r.h
  /\ tasks' = (IF old = NoTask THEN tasks ELSE tasks (-) SetToBag({old}))
                (+) (IF r.t = <<>> THEN EmptyBag ELSE SetToBag({r.t[1]}))
  /\ step' = [task |-> kind, op |-> op, in |-> o, net |-> r.net, disc |-> r.disc,
              ev |-> r.ev, ui |-> r.ui, ret |-> r.ret, sd |-> r.sd, lp |-> r.lp,
              probe |-> r.probe, inv |-> r.inv, ctx |-> old.ctx, hist |-> r.hist,
              wasActive |-> active, wasKilled |-> killed]
  /\ created' = IF r.k /\ ~killed THEN [created EXCEPT ![1].live = FALSE] ELSE created
  /\ UNCHANGED sessionNumbers

CanCall == ~hung /\ BagCardinality(tasks) < MaxTasks

CallFireMainLoop ==
  /\ CanCall
  /\ Commit(NoTask, "fire", "call", Ok, fireMainLoop(Begin(NoTask)))

CallStopDebugging(stopDebugger) ==
  /\ CanCall
  /\ Commit(NoTask, "stop", "call", Ok,
            IF stopDebugger THEN stopDebugging(Begin(NoTask), "ext")
            ELSE [Finish(stopDebuggingLocal(Begin(NoTask))) EXCEPT !.ret = "resolved"])

CallLogout(loggedin) ==
  /\ CanCall
  /\ Commit(NoTask, "logout", "call", Ok, logout(Begin(NoTask), loggedin))

(* The second probe is answered as the backend had it *)
Answers(t, o, o2) == IF t.pc = "probe2" THEN o = t.plan /\ o2 = Ok ELSE TRUE

FireProbe(t, o, o2) ==
  /\ ~hung /\ t \in Live("fire") /\ t.pc \in {"probe1", "probe2"}
  /\ Answers(t, o, o2)
  /\ Commit(t, "fire", t.pc, o, fireAfterProbe(Begin(t), t.pc, o, o2))

FireConfirm(t, o) ==
  /\ ~hung /\ t \in Live("fire") /\ t.pc = "confirm"
  /\ Commit(t, "fire", t.pc, o, fireAfterConfirm(Begin(t), o))

FireDelete(t, o) ==
  /\ ~hung /\ t \in Live("fire") /\ t.pc = "delete"
  /\ Commit(t, "fire", t.pc, o, fireAfterDelete(Begin(t), o))

LoopListen(t, o) ==
  /\ ~hung /\ t \in Live("loop") /\ t.pc = "listen"
  /\ Commit(t, "loop", t.pc, o, mainLoopAfterListen(Begin(t), o))

LoopAttach(t, o) ==
  /\ ~hung /\ t \in Live("loop") /\ t.pc = "attach"
  /\ Commit(t, "loop", t.pc, o, mainLoopAfterAttach(Begin(t), o))

LoopSave(t, o) ==
  /\ ~hung /\ t \in Live("loop") /\ t.pc = "save"
  /\ Commit(t, "loop", t.pc, o, mainLoopAfterSave(Begin(t), o))

LoopConfirm(t, o) ==
  /\ ~hung /\ t \in Live("loop") /\ t.pc = "confirm"
  /\ Commit(t, "loop", t.pc, o, mainLoopAfterConfirm(Begin(t), o))

StopProbe(t, o) ==
  /\ ~hung /\ t \in Live("loop") \cup Live("stop") /\ t.pc = "sdProbe"
  /\ Commit(t, t.kind, t.pc, o, stopDebuggingAfterProbe(Begin(t), t.ctx, o))

StopDelete(t, o) ==
  /\ ~hung /\ t \in Live("loop") \cup Live("stop") /\ t.pc = "sdDelete"
  /\ Commit(t, t.kind, t.pc, o, stopDebuggingAfterDelete(Begin(t), t.ctx, o))

LogoutStop(t, o, o2) ==
  /\ ~hung /\ t \in Live("logout") /\ t.pc \in {"probe1", "probe2", "delete"}
  /\ Answers(t, o, o2)
  /\ Commit(t, "logout", t.pc, o, logoutAfterStop(Begin(t), t, o, o2))

LogoutDrop(t, o) ==
  /\ ~hung /\ t \in Live("logout") /\ t.pc = "drop"
  /\ Commit(t, "logout", t.pc, o, logoutAfterDrop(Begin(t), t, o))

LogoutLogout(t, o) ==
  /\ ~hung /\ t \in Live("logout") /\ t.pc = "logouts"
  /\ Commit(t, "logout", t.pc, o, logoutAfterLogout(Begin(t), t, o))

Init ==
  /\ InitInstance
  /\ sessionNumbers = [c \in ConnIds |-> IF c = "dev" THEN 1 ELSE 0]
  /\ created = <<[connId |-> "dev", sessionNumber |-> 1, live |-> TRUE]>>

Next ==
  \/ CallFireMainLoop
  \/ \E b \in BOOLEAN : CallStopDebugging(b)
  \/ \E b \in BOOLEAN : CallLogout(b)
  \/ \E t \in BagToSet(tasks), o \in ProbeAnswers, o2 \in ProbeAnswers : FireProbe(t, o, o2)
  \/ \E t \in BagToSet(tasks), o \in ConfirmAnswers : FireConfirm(t, o)
  \/ \E t \in BagToSet(tasks), o \in DeleteAnswers : FireDelete(t, o)
  \/ \E t \in BagToSet(tasks), o \in ListenAnswers : LoopListen(t, o)
  \/ \E t \in BagToSet(tasks), o \in CallAnswers : LoopAttach(t, o)
  \/ \E t \in BagToSet(tasks), o \in CallAnswers : LoopSave(t, o)
  \/ \E t \in BagToSet(tasks), o \in ConfirmAnswers : LoopConfirm(t, o)
  \/ \E t \in BagToSet(tasks), o \in UserProbeAnswers : StopProbe(t, o)
  \/ \E t \in BagToSet(tasks), o \in DeleteAnswers : StopDelete(t, o)
  \/ \E t \in BagToSet(tasks), o \in ProbeAnswers, o2 \in ProbeAnswers : LogoutStop(t, o, o2)
  \/ \E t \in BagToSet(tasks), o \in CallAnswers : LogoutDrop(t, o)
  \/ \E t \in BagToSet(tasks), o \in CallAnswers : LogoutLogout(t, o)

Spec == Init /\ [][Next]_vars

---------------------------------------------------------------------------
(* Properties.  step describes the last step taken: the task that ran, the *)
(* await it was resumed from (op), the answer it got (in) and what the     *)
(* code did.                                                               *)

Prompts(ui) == Count([i \in 1..Len(ui) |-> ui[i].k], "confirm")
Errors(ui) == Count([i \in 1..Len(ui) |-> ui[i].k], "error")
Contains(msg, part) == \E i \in 1..Len(msg) : msg[i] = part
Events(type) == Count([i \in 1..Len(step.ev) |-> step.ev[i].type], type)
Invoked(what) == Count(step.inv, what)

C3_ForeignConflictDeclined ==
  /\ (step.task = "fire" /\ step.probe.res = "other")
       => /\ Prompts(step.ui) = 1 /\ Len(step.ui) = 1
          /\ step.in.conflictText # "" => Contains(step.ui[1].msg, step.in.conflictText)
          /\ step.net = {}
          /\ active = step.wasActive
  /\ (step.task = "fire" /\ step.op = "confirm" /\ step.in = No)
       => /\ step.ret = "false"
          /\ Count(step.hist, "prompted") = 1
          /\ Count(step.hist, "deleted") = 0
          /\ step.net = {} /\ step.ui = <<>> /\ step.inv = <<>>
          /\ active = step.wasActive

C3_Witness ==
  /\ step.task = "fire" /\ step.op = "confirm" /\ step.in = No
  /\ step.ret = "false"

(* C4: every stopDebugging(true) sets active to false and emits exactly    *)
(* one terminated event, whatever its remote calls do and also when the    *)
(* instance is already killed.                                             *)
C4_StopDebuggingTerminates ==
  /\ Invoked("stopDebugging(true)") > 0 => ~active
  /\ (step.sd # <<>> /\ step.sd[1] = "true")
       => step.sd[2] = "resolved" /\ Events("terminated") = 1

(* C5: once killed, no remote call reaches the network except the          *)
(* dropSession and logout calls of logout() itself.                        *)
C5_KilledRefusesRemoteCalls ==
  step.wasKilled =>
    step.net \subseteq (IF step.task = "logout"
                          THEN {"dropSession", "logout", "statelessClone.logout"}
                          ELSE {})

Unclassified(e) ==
  /\ e.err /\ e.adt
  /\ errorType(e) \notin {"conflictNotification", "conflictDetected", ATTACHTIMEOUT}

LoopStep(op) == step.task = "loop" /\ step.op = op

(* C6, as stated: for a listen call that resolved with a debuggee while    *)
(* active, when attach and saveSettings succeed exactly one stopped event  *)
(* is emitted and no terminated event, attached is true afterwards and the *)
(* loop issues the next listen call.                                       *)
C6_CleanStopAsStated ==
  (LoopStep("save") /\ ~step.in.err)
    => /\ step.ev = <<StoppedEvent>>
       /\ attached
       /\ "listen" \in step.net

(* C6, amended: for a listen call that resolved with a debuggee while      *)
(* active, the attach call (sent unless already attached) is followed by   *)
(* saveSettings; when both succeed exactly one stopped event (breakpoint,  *)
(* thread 1) and no terminated event is emitted; and if active is still    *)
(* true when saveSettings completes, attached is true afterwards and the   *)
(* loop issues the next listen call.                                       *)
C6_CleanStop ==
  /\ (LoopStep("listen") /\ step.in = Debuggee /\ step.wasActive /\ ~step.wasKilled)
       => /\ step.ev = <<>>
          /\ step.net = {IF attached THEN "saveSettings" ELSE "attach"}
  /\ (LoopStep("attach") /\ ~step.in.err /\ ~step.wasKilled)
       => /\ step.ev = <<>> /\ attached /\ step.net = {"saveSettings"}
  /\ (LoopStep("save") /\ ~step.in.err)
       => /\ step.ev = <<StoppedEvent>>
          /\ StoppedEvent.reason = "breakpoint" /\ StoppedEvent.threadId = 1
          /\ step.wasActive => (attached /\ step.net = {"listen"})
          /\ ~step.wasActive => (step.net = {} /\ step.lp = "returned")

C6_Witness ==
  /\ LoopStep("save") /\ ~step.in.err /\ step.wasActive
  /\ step.ev = <<StoppedEvent>> /\ attached /\ "listen" \in step.net

(* C7, as stated: when a listen call throws an unclassified structured     *)
(* error while active, the UI is asked once; on true stopDebugging(true)   *)
(* is invoked once and the loop exits without another listen call; on      *)
(* false stopDebugging is not invoked, no terminated event is emitted and  *)
(* the loop issues another listen call.                                    *)
C7_UnclassifiedAsStated ==
  /\ (LoopStep("listen") /\ step.wasActive /\ Unclassified(step.in))
       => Prompts(step.ui) = 1
  /\ (LoopStep("confirm") /\ step.in = Yes)
       => Invoked("stopDebugging(true)") = 1 /\ "listen" \notin step.net
  /\ (step.task = "loop" /\ step.ctx = "quit") => "listen" \notin step.net
  /\ (LoopStep("confirm") /\ step.in = No)
       => /\ Invoked("stopDebugging(true)") = 0 /\ Invoked("stopDebugging(false)") = 0
          /\ Events("terminated") = 0
          /\ "listen" \in step.net

(* C7, amended: the UI is asked "close session?" exactly once; on true     *)
(* stopDebugging(true) is invoked exactly once, and when it has completed  *)
(* the loop issues another listen call only if active was set again in the *)
(* meantime, and exits otherwise; on false stopDebugging is not invoked,   *)
(* no terminated event is emitted, and the loop issues another listen call *)
(* if active is still true, and exits if it was cleared during the prompt. *)
C7_UnclassifiedError ==
  /\ (LoopStep("listen") /\ step.wasActive /\ Unclassified(step.in))
       => /\ step.ui = <<[k |-> "confirm", msg |-> CloseSessionMessage(step.in)]>>
          /\ step.net = {} /\ step.ev = <<>> /\ step.inv = <<>>
  /\ (LoopStep("confirm") /\ step.in = Yes)
       => /\ Invoked("stopDebugging(true)") = 1 /\ Invoked("stopDebugging(false)") = 0
          /\ "listen" \notin step.net
          /\ ~active
  /\ (step.task = "loop" /\ step.ctx = "quit")
       => /\ Invoked("stopDebugging(true)") = 0
          /\ "listen" \in step.net => (step.wasActive /\ step.sd = <<"true", "resolved">>)
          /\ (step.sd = <<"true", "resolved">> /\ ~step.wasActive) => step.lp = "returned"
  /\ (LoopStep("confirm") /\ step.in = No)
       => /\ step.inv = <<>> /\ step.ev = <<>> /\ step.ui = <<>>
          /\ step.wasActive => step.net = {"listen"}
          /\ ~step.wasActive => (step.net = {} /\ step.lp = "returned")

C7_Witness ==
  /\ LoopStep("confirm") /\ step.in = No /\ step.wasActive
  /\ "listen" \in step.net

(* C8: the k-th session created for a connectionId gets sessionNumber k,   *)
(* whatever was created for other connectionIds and whichever earlier      *)
(* sessions were logged out.                                               *)
C8_SessionNumbers ==
  /\ \A i \in 1..Len(created) :
       created[i].sessionNumber =
         Cardinality({j \in 1..i : created[j].connId = created[i].connId})
  /\ \A c \in ConnIds :
       sessionNumbers[c] = Cardinality({j \in 1..Len(created) : created[j].connId = c})

C8_Witness ==
  /\ Len(created) >= 3
  /\ created[1].connId = created[3].connId /\ created[2].connId # created[3].connId
  /\ created[3].sessionNumber = 2 /\ created[2].sessionNumber = 1
  /\ ~created[1].live

(* C9: logout() never rejects, whichever of its remote calls fail. *)
C9_LogoutNeverThrows ==
  step.task = "logout" => step.ret # "rejected"

(* C10: when the backend holds a stale listener of this identity, a        *)
(* logout() on a session not yet killed issues deleteListener before it    *)
(* completes.                                                              *)
C10_LogoutTearsDownStale ==
  (step.task = "logout" /\ step.ret # "none" /\ Count(step.hist, "stale") > 0)
    => Count(step.hist, "deleted") > 0

(* An error is thrown inside the try block of fireMainLoop in this step *)
ArbitrationError ==
  /\ step.task = "fire"
  /\ \/ step.op = "call" /\ step.wasKilled
     \/ step.op \in {"probe1", "probe2"} /\ step.in.err /\ ~isConflictError(step.in)
     \/ step.op = "probe1" /\ ~step.in.err /\ step.wasKilled
     \/ step.op \in {"confirm", "delete"} /\ step.in.err

(* C11: fireMainLoop never rejects; an error thrown during arbitration is  *)
(* reported through the UI error sink, fireMainLoop returns false and      *)
(* issues no listen call; it returns true only when the loop was started.  *)
C11_FireMainLoopNeverRejects ==
  /\ step.task = "fire" => step.ret \in {"none", "true", "false"}
  /\ ArbitrationError
       => /\ step.ret = "false"
          /\ Errors(step.ui) = 1 /\ Len(step.ui) = 1
          /\ step.ui[1].msg[1] = "Error listening to debugger:"
          /\ "listen" \notin step.net
          /\ Invoked("mainLoop") = 0
  /\ (step.task = "fire" /\ step.ret = "true")
       => /\ Invoked("mainLoop") = 1
          /\ "listen" \in step.net
          /\ active

C11_Witness ==
  /\ ArbitrationError /\ step.op = "delete"
  /\ step.ret = "false" /\ Errors(step.ui) = 1

(* C12: the mainLoop task never ends in a rejection, whatever the remote    *)
(* calls do and whatever the prompt is answered; in particular a failure   *)
(* inside the stopDebugging call made from the loop does not escape it.    *)
C12_LoopNeverRejects ==
  (step.task = "loop" /\ ~(step.op = "confirm" /\ step.in.err))
    => step.lp # "rejected"

(* C13: when a listen call throws a conflict error while active, the UI    *)
(* error sink is invoked once with the conflict text or the generic        *)
(* message, no prompt is shown, no remote call is issued, exactly one      *)
(* terminated event is emitted, active becomes false and the loop exits    *)
(* without another listen call.                                            *)
C13_ConflictMidLoop ==
  (LoopStep("listen") /\ step.wasActive /\ step.in.err /\ step.in.adt
     /\ isConflictError(step.in))
    => /\ step.ui = <<[k |-> "error", msg |-> ConflictMessage(step.in)]>>
       /\ step.ui[1].msg[1] = (IF step.in.conflictText # "" THEN step.in.conflictText
                                ELSE "Debugger terminated by another session/user")
       /\ step.net = {}
       /\ step.ev = <<TerminatedEvent>>
       /\ step.inv = <<"stopDebugging(false)">>
       /\ ~active
       /\ step.lp = "returned"

C13_Witness ==
  /\ LoopStep("listen") /\ step.wasActive /\ step.in = ErrConflictNotification
  /\ step.ev = <<TerminatedEvent>> /\ step.lp = "returned"

(* C14: active is re-checked after the attach and saveSettings calls: when *)
(* stopDebugging or logout has cleared it while such a call of the loop    *)
(* was in flight, no stopped event is emitted when the call completes.     *)
C14_ActiveRecheckedAfterAttach ==
  (step.task = "loop" /\ step.op \in {"attach", "save"} /\ ~step.wasActive)
    => Events("stopped") = 0

(* C15: when active was cleared while a listen call of the loop was in     *)
(* flight, and is still false when the call settles, the loop ends         *)
(* whatever the call resolved or failed with: no attach call, no stopped   *)
(* event, no UI error or prompt, no further listen call.                   *)
C15_StopDuringLongPoll ==
  (LoopStep("listen") /\ ~step.wasActive)
    => /\ step.net = {}
       /\ step.ev = <<>>
       /\ step.ui = <<>>
       /\ step.inv = <<>>
       /\ step.lp = "returned"
       /\ ~active

C15_Witness ==
  /\ LoopStep("listen") /\ ~step.wasActive /\ step.in = Debuggee
  /\ step.lp = "returned" /\ step.net = {}

SessionCalls == {"dropSession", "logout", "statelessClone.logout"}

(* C16: in logout() of a logged-in client dropSession is issued only when  *)
(* the probe/teardown branch has settled, and the two logout calls only    *)
(* when dropSession has completed; when the client is not logged in, none  *)
(* of these calls is issued.                                               *)
C16_LogoutOrdering ==
  /\ step.net \cap SessionCalls # {} => step.task = "logout"
  /\ "dropSession" \in step.net
       => /\ step.op \in {"probe1", "probe2", "delete"} /\ step.ctx = "in"
          /\ step.net = {"dropSession"}
          /\ {t \in Live("logout") : t.pc \in {"probe1", "probe2", "delete"}} = {}
  /\ step.net \cap {"logout", "statelessClone.logout"} # {}
       => /\ step.op = "drop" /\ step.ctx = "in" /\ ~step.in.err
          /\ step.net = {"logout", "statelessClone.logout"}
  /\ (step.task = "logout" /\ step.ctx # "in") => step.net \cap SessionCalls = {}

C16_Witness ==
  /\ step.task = "logout" /\ step.op = "drop" /\ step.ctx = "in"
  /\ step.net = {"logout", "statelessClone.logout"}

(* A step of the stopDebugging() call made by the catch block of            *)
(* onBreakpointReached                                                     *)
AttachFailureStop ==
  /\ step.task = "loop"
  /\ \/ step.op \in {"attach", "save"} /\ step.in.err
     \/ step.op \in {"sdProbe", "sdDelete"} /\ step.ctx = "bp"

(* C17: when the attach call or the saveSettings call fails, no stopped    *)
(* event is emitted for that stop, stopDebugging(true) is invoked, active  *)
(* becomes false, a terminated event is emitted and the loop exits without *)
(* another listen call.                                                    *)
C17_AttachFailureStops ==
  /\ (LoopStep("attach") \/ LoopStep("save")) /\ step.in.err
       => /\ Events("stopped") = 0
          /\ Invoked("stopDebugging(true)") = 1
          /\ ~active
  /\ AttachFailureStop
       => /\ Events("stopped") = 0
          /\ "listen" \notin step.net
          /\ step.sd # <<>> => /\ step.sd = <<"true", "resolved">>
                                /\ Events("terminated") = 1
                                /\ step.lp = "returned"

InFlightListens ==
  LET S == {t \in BagToSet(tasks) : t.kind = "loop" /\ t.pc = "listen"}
  IN  BagCardinality([t \in S |-> tasks[t]])

(* C19: at most one listen loop runs per instance, hence at most one       *)
(* listen call is in flight.                                               *)
C19_AtMostOneLoop ==
  /\ InFlightListens <= 1
  /\ BagCardinality([t \in Live("loop") |-> tasks[t]]) <= 1

(* C20: once logout() has set killed, active is never true again and no    *)
(* loop keeps iterating on listen attempts refused with Disconnected.      *)
C20_LogoutIsTerminal ==
  killed => (~active /\ ~hung /\ step.lp # "spinning")

=============================================================================
